---- MODULE Spec2Model ----
(***************************************************************************)
(* Colour value types of NeoPixelBus: RgbColor, RgbwColor, HslColor and    *)
(* HsbColor (src/src/internal/*.h).                                        *)
(*                                                                         *)
(* The state is one RgbColor object, one RgbwColor object, one HslColor    *)
(* and one HsbColor object, the number returned by the last call that      *)
(* returns a number, and a record of the last two calls made.  A method    *)
(* that returns a new colour (Dim, Brighten, the blends, the conversions)  *)
(* is modelled as the assignment of its return value to the object of the  *)
(* returned type, e.g. rgb = rgb.Dim(ratio).                               *)
(***************************************************************************)
EXTENDS Integers, Naturals, Sequences, FiniteSets, TLC

VARIABLES rgb, rgbw, hsl, hsb, ret, call, prev, ncalls

vars == <<rgb, rgbw, hsl, hsb, ret, call, prev, ncalls>>

(***************************************************************************)
(* Bounds of the model.                                                    *)
(***************************************************************************)
\* number of calls in one behaviour
MaxCalls == 2
\* how many values next to each edge of a byte range are enumerated
EdgeWidth == 1
\* largest denominator n of the blend progress values i / n
MaxDenom == 3

(***************************************************************************)
(* Integer widths.                                                         *)
(***************************************************************************)
U8  == 256
U16 == 65536

\* channel values the objects are constructed with
ChanVals == (0..EdgeWidth) \cup {128} \cup ((255 - EdgeWidth)..255)
\* ratios handed to Dim and Brighten: both ends and the two ratios next to a
\* quarter
Ratios == {0, 63, 64, 255}
\* deltas handed to Darken and Lighten: none, the smallest, more than half
\* the range, the whole range
Deltas == {0, 1, 129, 255}

(***************************************************************************)
(* Constructors.                                                           *)
(***************************************************************************)
RgbColor(r, g, b) == [R |-> r, G |-> g, B |-> b]

RgbColorBrightness(brightness) == RgbColor(brightness, brightness, brightness)

RgbwColor(r, g, b, w) == [R |-> r, G |-> g, B |-> b, W |-> w]

RgbwColorBrightness(brightness) == RgbwColor(0, 0, 0, brightness)

RgbwColorFromRgb(color) == RgbwColor(color.R, color.G, color.B, 0)

IsMonotone(c) == c.R = c.B /\ c.R = c.G

IsColorLess(c) == c.R = 0 /\ c.B = 0 /\ c.G = 0

(***************************************************************************)
(* RgbColor: integer scaling.  The operands are promoted to int, so the    *)
(* product and the shifted sum are not reduced before they are stored.     *)
(***************************************************************************)
\* mutant: the scale factor is ratio / 256 instead of (ratio + 1) / 256
RgbColor_elementDim_NoPlusOne(value, ratio) == ((value * ratio) \div 256) % U8

\* mutant: ratio + 1 is computed in uint8_t and wraps to 0 at ratio 255
RgbColor_elementDim_RatioWraps(value, ratio) ==
    ((value * ((ratio + 1) % U8)) \div 256) % U8

RgbColor_elementDim(value, ratio) == ((value * (ratio + 1)) \div 256) % U8

\* mutant: the decrement of the unclamped element is left out
RgbColor_elementBrighten_NoDecrement(value, ratio) ==
    LET element == (((value + 1) * 256) \div (ratio + 1)) % U16
        clamped == IF element > 255 THEN 255 ELSE element
    IN  clamped % U8

RgbColor_elementBrighten(value, ratio) ==
    LET element == (((value + 1) * 256) \div (ratio + 1)) % U16
        clamped == IF element > 255 THEN 255 ELSE (element - 1) % U16
    IN  clamped % U8

RgbColor_Dim(c, ratio) ==
    RgbColor(RgbColor_elementDim(c.R, ratio),
             RgbColor_elementDim(c.G, ratio),
             RgbColor_elementDim(c.B, ratio))

RgbColor_Brighten(c, ratio) ==
    RgbColor(RgbColor_elementBrighten(c.R, ratio),
             RgbColor_elementBrighten(c.G, ratio),
             RgbColor_elementBrighten(c.B, ratio))

\* mutant: the subtraction is not guarded and wraps around
DarkenChannel_Wrap(value, delta) == (value - delta) % U8

\* one channel of Darken: if (X > delta) X -= delta; else X = 0;
DarkenChannel(value, delta) ==
    IF value > delta THEN (value - delta) % U8 ELSE 0

\* mutant: the else branch leaves the channel as it is
LightenChannel_NoClamp(value, delta) ==
    IF value < 255 - delta THEN (value + delta) % U8 ELSE value

\* one channel of Lighten: if (X < 255 - delta) X += delta; else X = 255;
LightenChannel(value, delta) ==
    IF value < 255 - delta THEN (value + delta) % U8 ELSE 255

RgbColor_Darken(c, delta) ==
    RgbColor(DarkenChannel(c.R, delta),
             DarkenChannel(c.G, delta),
             DarkenChannel(c.B, delta))

RgbColor_Lighten(c, delta) ==
    RgbColor(LightenChannel(c.R, delta),
             LightenChannel(c.G, delta),
             LightenChannel(c.B, delta))

(***************************************************************************)
(* RgbwColor: integer scaling.                                             *)
(***************************************************************************)
\* mutant: the ratio is not raised by one before the multiplication
RgbwColor_elementDim_NoPlusOne(value, ratio) ==
    ((value * ratio) \div 256) % U8

RgbwColor_elementDim(value, ratio) == ((value * (ratio + 1)) \div 256) % U8

\* mutant: the clamp takes 255 itself for an overflow
RgbwColor_elementBrighten_ClampEarly(value, ratio) ==
    LET element == (((value + 1) * 256) \div (ratio + 1)) % U16
        clamped == IF element >= 255 THEN 255 ELSE (element - 1) % U16
    IN  clamped % U8

RgbwColor_elementBrighten(value, ratio) ==
    LET element == (((value + 1) * 256) \div (ratio + 1)) % U16
        clamped == IF element > 255 THEN 255 ELSE (element - 1) % U16
    IN  clamped % U8

RgbwColor_Dim(c, ratio) ==
    RgbwColor(RgbwColor_elementDim(c.R, ratio),
              RgbwColor_elementDim(c.G, ratio),
              RgbwColor_elementDim(c.B, ratio),
              RgbwColor_elementDim(c.W, ratio))

RgbwColor_Brighten(c, ratio) ==
    RgbwColor(RgbwColor_elementBrighten(c.R, ratio),
              RgbwColor_elementBrighten(c.G, ratio),
              RgbwColor_elementBrighten(c.B, ratio),
              RgbwColor_elementBrighten(c.W, ratio))

RgbwDarkenChannel(value, delta) ==
    IF value > delta THEN (value - delta) % U8 ELSE 0

RgbwLightenChannel(value, delta) ==
    IF value < 255 - delta THEN (value + delta) % U8 ELSE 255

\* mutant: the green channel is left as it is
RgbwColor_Darken_SkipGreen(c, delta) ==
    RgbwColor(RgbwDarkenChannel(c.R, delta),
              c.G,
              RgbwDarkenChannel(c.B, delta),
              RgbwDarkenChannel(c.W, delta))

RgbwColor_Darken(c, delta) ==
    RgbwColor(RgbwDarkenChannel(c.R, delta),
              RgbwDarkenChannel(c.G, delta),
              RgbwDarkenChannel(c.B, delta),
              RgbwDarkenChannel(c.W, delta))

\* mutant: R, G and B are lightened whatever the colour is, as in RgbColor
RgbwColor_Lighten_NoColorLessCheck(c, delta) ==
    RgbwColor(RgbwLightenChannel(c.R, delta),
              RgbwLightenChannel(c.G, delta),
              RgbwLightenChannel(c.B, delta),
              c.W)

\* mutant: the white channel is lightened whatever the colour is
RgbwColor_Lighten_AlwaysWhite(c, delta) ==
    IF IsColorLess(c)
    THEN RgbwColor(c.R, c.G, c.B, RgbwLightenChannel(c.W, delta))
    ELSE RgbwColor(RgbwLightenChannel(c.R, delta),
                   RgbwLightenChannel(c.G, delta),
                   RgbwLightenChannel(c.B, delta),
                   RgbwLightenChannel(c.W, delta))

RgbwColor_Lighten(c, delta) ==
    IF IsColorLess(c)
    THEN RgbwColor(c.R, c.G, c.B, RgbwLightenChannel(c.W, delta))
    ELSE RgbwColor(RgbwLightenChannel(c.R, delta),
                   RgbwLightenChannel(c.G, delta),
                   RgbwLightenChannel(c.B, delta),
                   c.W)

(***************************************************************************)
(* Current estimation.  The settings objects hold one current per channel  *)
(* in tenths of a milliampere, each a 16-bit unsigned value.  The products *)
(* and the total are computed in int (at most 4 * 65535, so int does not   *)
(* overflow); the total is then converted to the return type.              *)
(***************************************************************************)
NeoRgbCurrentSettings(red, green, blue) ==
    [RedTenthMilliAmpere |-> red, GreenTenthMilliAmpere |-> green,
     BlueTenthMilliAmpere |-> blue]

NeoRgbwCurrentSettings(red, green, blue, white) ==
    [RedTenthMilliAmpere |-> red, GreenTenthMilliAmpere |-> green,
     BlueTenthMilliAmpere |-> blue, WhiteCurrent |-> white]

\* returns uint32_t: the int total is never negative and is kept as it is
RgbColor_CalcTotalTenthMilliAmpere(c, settings) ==
    LET t1 == 0 + (c.R * settings.RedTenthMilliAmpere) \div 255
        t2 == t1 + (c.G * settings.GreenTenthMilliAmpere) \div 255
        t3 == t2 + (c.B * settings.BlueTenthMilliAmpere) \div 255
    IN  t3

\* returns uint16_t: the int total is reduced to 16 bits
RgbwColor_CalcTotalTenthMilliAmpere(c, settings) ==
    LET t1 == 0 + (c.R * settings.RedTenthMilliAmpere) \div 255
        t2 == t1 + (c.G * settings.GreenTenthMilliAmpere) \div 255
        t3 == t2 + (c.B * settings.BlueTenthMilliAmpere) \div 255
        t4 == t3 + (c.W * settings.WhiteCurrent) \div 255
    IN  t4 % U16

(***************************************************************************)
(* IEEE-754 binary32 arithmetic, as the float operands of the source use   *)
(* it.  A float is [s, m, e] with value (-1)^s * m * 2^e, where m = 0 or   *)
(* 2^23 <= m < 2^24.  Every operation rounds to nearest, ties to even.     *)
(* Infinities, NaNs and subnormals are outside the values the colour       *)
(* arithmetic produces from the inputs enumerated here; the zero is kept   *)
(* unsigned, since no operation of the source observes its sign.           *)
(***************************************************************************)
FZero == [s |-> 0, m |-> 0, e |-> 0]

\* the element of a one-element set; {F(x) : x \in {e}} evaluates the
\* operand e once, however often F uses it
Once(S) == CHOOSE x \in S : TRUE

\* number of significant bits of M, for 0 <= M < 2^30
BitLen(M) == CHOOSE k \in 0..30 : M < 2^k /\ (k = 0 \/ M >= 2^(k - 1))

\* the float with sign s whose significand is the nb-bit number M, rounded
\* to 24 bits
RoundBits(s, M, e, sticky, nb) ==
    IF nb <= 24
    THEN [s |-> s, m |-> M * 2^(24 - nb), e |-> e - (24 - nb)]
    ELSE LET sh   == nb - 24
             q    == M \div 2^sh
             rem  == M % 2^sh
             half == 2^(sh - 1)
             up   == rem > half \/ (rem = half /\ (sticky \/ q % 2 = 1))
             q1   == IF up THEN q + 1 ELSE q
         IN  IF q1 = 2^24
             THEN [s |-> s, m |-> 2^23, e |-> e + sh + 1]
             ELSE [s |-> s, m |-> q1, e |-> e + sh]

\* round the value M * 2^e (plus a non-zero fraction of its last place when
\* sticky) to a float
FRound(s, M, e, sticky) ==
    Once({IF x = 0 THEN FZero
          ELSE Once({RoundBits(s, x, e, st, nb) : nb \in {BitLen(x)}}) :
          x \in {M}, st \in {sticky}})

\* conversion of an int to float (exact below 2^24)
FInt(n) == IF n < 0 THEN FRound(1, -n, 0, FALSE) ELSE FRound(0, n, 0, FALSE)

\* the float nearest to num / 2^k
FDyadic(num, k) == FRound(0, num, -k, FALSE)

FNeg(a) == Once({IF x.m = 0 THEN x ELSE [x EXCEPT !.s = 1 - x.s] : x \in {a}})

\* magnitude comparison of two float values
FMagLess(a, b) ==
    IF a.m = 0 THEN b.m # 0
    ELSE IF b.m = 0 THEN FALSE
    ELSE a.e < b.e \/ (a.e = b.e /\ a.m < b.m)

LessOf(a, b) ==
    IF a.s = 0 /\ b.s = 0 THEN FMagLess(a, b)
    ELSE IF a.s = 1 /\ b.s = 1 THEN FMagLess(b, a)
    ELSE a.s = 1

FLess(a, b) == \E x \in {a}, y \in {b} : LessOf(x, y)

FGreater(a, b) == FLess(b, a)

FEqual(a, b) == a = b

FGreaterEq(a, b) == ~FLess(a, b)

\* the product of two float values: the 48-bit product of the significands
\* is formed in 12-bit limbs
MulOf(a, b) ==
    IF a.m = 0 \/ b.m = 0 THEN FZero
    ELSE LET a1   == a.m \div 4096
             a0   == a.m % 4096
             b1   == b.m \div 4096
             b0   == b.m % 4096
             lo   == a0 * b0
             mid  == a1 * b0 + a0 * b1 + (lo \div 4096)
             hi   == a1 * b1 + (mid \div 4096)
             low  == (mid % 4096) * 4096 + (lo % 4096)
             M    == hi * 4 + (low \div 4194304)
             st   == (low % 4194304) # 0
         IN  FRound((a.s + b.s) % 2, M, a.e + b.e + 22, st)

\* a * b
FMul(a, b) == Once({MulOf(x, y) : x \in {a}, y \in {b}})

\* the sum of two float values, big the one of the larger magnitude: three
\* guard bits and a sticky flag
AddOrdered(big, small) ==
    LET d  == big.e - small.e
        B  == big.m * 8
        S  == IF d >= 27 THEN 0 ELSE (small.m * 8) \div 2^d
        st == IF d >= 27 THEN TRUE ELSE ((small.m * 8) % 2^d) # 0
    IN  IF big.s = small.s
        THEN FRound(big.s, B + S, big.e - 3, st)
        ELSE IF st
             THEN FRound(big.s, B - S - 1, big.e - 3, TRUE)
             ELSE FRound(big.s, B - S, big.e - 3, FALSE)

AddOf(a, b) ==
    IF a.m = 0 THEN b
    ELSE IF b.m = 0 THEN a
    ELSE IF FMagLess(a, b) THEN AddOrdered(b, a) ELSE AddOrdered(a, b)

\* a + b
FAdd(a, b) == Once({AddOf(x, y) : x \in {a}, y \in {b}})

\* a - b
FSub(a, b) == FAdd(a, FNeg(b))

\* the quotient of two float values: 26 quotient bits by long division, the
\* remainder is the sticky flag
DivOf(a, b) ==
    IF a.m = 0 THEN FZero
    ELSE LET q0 == a.m \div b.m
             r0 == a.m % b.m
             q1 == q0 * 64 + ((r0 * 64) \div b.m)
             r1 == (r0 * 64) % b.m
             q2 == q1 * 64 + ((r1 * 64) \div b.m)
             r2 == (r1 * 64) % b.m
             q3 == q2 * 64 + ((r2 * 64) \div b.m)
             r3 == (r2 * 64) % b.m
             q4 == q3 * 64 + ((r3 * 64) \div b.m)
             r4 == (r3 * 64) % b.m
             q5 == q4 * 4 + ((r4 * 4) \div b.m)
             r5 == (r4 * 4) % b.m
         IN  FRound((a.s + b.s) % 2, q5, a.e - b.e - 26, r5 # 0)

\* a / b
FDiv(a, b) == Once({DivOf(x, y) : x \in {a}, y \in {b}})

\* is the float value in the range a conversion to uint8_t is defined on
FInU8Range(a) == a.m = 0 \/ a.e <= -24 \/ (a.s = 0 /\ a.e <= -16)

\* conversion of a float value in range to uint8_t: truncation toward zero
FTruncU8(a) ==
    IF a.m = 0 \/ a.e <= -24 THEN 0
    ELSE a.m \div 2^(-a.e)

\* outcomes of the conversion float -> uint8_t; out of range it is undefined
FToU8(a) ==
    UNION {IF FInU8Range(x) THEN {FTruncU8(x)} ELSE 0..255 : x \in {a}}

FAbs(a) == [a EXCEPT !.s = 0]

FMin(a, b) == Once({IF LessOf(y, x) THEN y ELSE x : x \in {a}, y \in {b}})

\* conversion of a float value to int: truncation toward zero (|a| < 2^24)
TruncIntOf(a) ==
    IF a.m = 0 \/ a.e <= -24 THEN 0
    ELSE LET mag == IF a.e < 0 THEN a.m \div 2^(-a.e) ELSE a.m * 2^a.e
         IN  IF a.s = 1 THEN -mag ELSE mag

\* (int)a
FTruncInt(a) == Once({TruncIntOf(x) : x \in {a}})

\* float literals of the source
F0    == FZero
F1    == FInt(1)
F2    == FInt(2)
F4    == FInt(4)
F6    == FInt(6)
F255  == FInt(255)
FHalf == FDyadic(1, 1)
\* 1.0f / 3.0f, 1.0f / 6.0f and 2.0f / 3.0f are folded to the nearest float
FThird     == FDiv(F1, FInt(3))
FSixth     == FDiv(F1, F6)
FTwoThirds == FDiv(F2, FInt(3))

\* the colours three (four) floats convert to, channel by channel
RgbOfFloats(r, g, b) ==
    {RgbColor(x, y, z) : x \in FToU8(r), y \in FToU8(g), z \in FToU8(b)}

RgbwOfFloats(r, g, b, w) ==
    {RgbwColor(c.R, c.G, c.B, z) : c \in RgbOfFloats(r, g, b), z \in FToU8(w)}

(***************************************************************************)
(* Blends.  right.X - left.X is an int subtraction; the product with the   *)
(* progress and the sum with left.X are float operations, and the         *)
(* constructor converts the float to uint8_t.                              *)
(***************************************************************************)
\* mutant: the blend runs from right to left
LinearBlendChannel_Reversed(left, right, progress) ==
    FAdd(FInt(left), FMul(FInt(right - left), FSub(F1, progress)))

LinearBlendChannel(left, right, progress) ==
    FAdd(FInt(left), FMul(FInt(right - left), progress))

RgbColor_LinearBlend(left, right, progress) ==
    RgbOfFloats(LinearBlendChannel(left.R, right.R, progress),
                LinearBlendChannel(left.G, right.G, progress),
                LinearBlendChannel(left.B, right.B, progress))

RgbwColor_LinearBlend(left, right, progress) ==
    RgbwOfFloats(LinearBlendChannel(left.R, right.R, progress),
                 LinearBlendChannel(left.G, right.G, progress),
                 LinearBlendChannel(left.B, right.B, progress),
                 LinearBlendChannel(left.W, right.W, progress))

\* mutant: the weight of c11 is x * (1 - y), the weights no longer sum to 1
BilinearBlendChannel_WrongWeight(c00, c01, c10, c11, x, y) ==
    LET v00 == FMul(FSub(F1, x), FSub(F1, y))
        v10 == FMul(x, FSub(F1, y))
        v01 == FMul(FSub(F1, x), y)
        v11 == FMul(x, FSub(F1, y))
    IN  FAdd(FAdd(FAdd(FMul(FInt(c00), v00), FMul(FInt(c10), v10)),
                  FMul(FInt(c01), v01)),
             FMul(FInt(c11), v11))

\* c00.X * v00 + c10.X * v10 + c01.X * v01 + c11.X * v11, left to right
BilinearBlendChannel(c00, c01, c10, c11, x, y) ==
    LET v00 == FMul(FSub(F1, x), FSub(F1, y))
        v10 == FMul(x, FSub(F1, y))
        v01 == FMul(FSub(F1, x), y)
        v11 == FMul(x, y)
    IN  FAdd(FAdd(FAdd(FMul(FInt(c00), v00), FMul(FInt(c10), v10)),
                  FMul(FInt(c01), v01)),
             FMul(FInt(c11), v11))

RgbColor_BilinearBlend(c00, c01, c10, c11, x, y) ==
    RgbOfFloats(BilinearBlendChannel(c00.R, c01.R, c10.R, c11.R, x, y),
                BilinearBlendChannel(c00.G, c01.G, c10.G, c11.G, x, y),
                BilinearBlendChannel(c00.B, c01.B, c10.B, c11.B, x, y))

RgbwColor_BilinearBlend(c00, c01, c10, c11, x, y) ==
    RgbwOfFloats(BilinearBlendChannel(c00.R, c01.R, c10.R, c11.R, x, y),
                 BilinearBlendChannel(c00.G, c01.G, c10.G, c11.G, x, y),
                 BilinearBlendChannel(c00.B, c01.B, c10.B, c11.B, x, y),
                 BilinearBlendChannel(c00.W, c01.W, c10.W, c11.W, x, y))

(***************************************************************************)
(* Conversions between the colour spaces.                                  *)
(***************************************************************************)
HslColor(h, s, l) == [H |-> h, S |-> s, L |-> l]

HsbColor(h, s, b) == [H |-> h, S |-> s, B |-> b]

\* (r > g && r > b) ? r : (g > b) ? g : b
MaxOf(r, g, b) ==
    IF FGreater(r, g) /\ FGreater(r, b) THEN r
    ELSE IF FGreater(g, b) THEN g ELSE b

\* (r < g && r < b) ? r : (g < b) ? g : b
MinOf(r, g, b) ==
    IF FLess(r, g) /\ FLess(r, b) THEN r
    ELSE IF FLess(g, b) THEN g ELSE b

convertToHslColor(color) ==
    LET r   == FDiv(FInt(color.R), F255)
        g   == FDiv(FInt(color.G), F255)
        b   == FDiv(FInt(color.B), F255)
        max == MaxOf(r, g, b)
        min == MinOf(r, g, b)
        L   == FDiv(FAdd(max, min), F2)
        d   == FSub(max, min)
        S   == IF FGreater(L, FHalf)
               THEN FDiv(d, FSub(F2, FAdd(max, min)))
               ELSE FDiv(d, FAdd(max, min))
        H   == IF FGreater(r, g) /\ FGreater(r, b)
               THEN FAdd(FDiv(FSub(g, b), d), IF FLess(g, b) THEN F6 ELSE F0)
               ELSE IF FGreater(g, b)
                    THEN FAdd(FDiv(FSub(b, r), d), F2)
                    ELSE FAdd(FDiv(FSub(r, g), d), F4)
    IN  IF FEqual(max, min)
        THEN HslColor(F0, F0, L)
        ELSE HslColor(FDiv(H, F6), S, L)

\* the divisors of the divisions convertToHslColor performs on the colour
HslDivisors(color) ==
    LET r   == FDiv(FInt(color.R), F255)
        g   == FDiv(FInt(color.G), F255)
        b   == FDiv(FInt(color.B), F255)
        max == MaxOf(r, g, b)
        min == MinOf(r, g, b)
        L   == FDiv(FAdd(max, min), F2)
    IN  IF FEqual(max, min)
        THEN {F255, F2}
        ELSE {F255, F2, F6, FSub(max, min),
              IF FGreater(L, FHalf)
              THEN FSub(F2, FAdd(max, min))
              ELSE FAdd(max, min)}

\* the divisors of the divisions convertToHsbColor performs on the colour
HsbDivisors(color) ==
    LET r   == FDiv(FInt(color.R), F255)
        g   == FDiv(FInt(color.G), F255)
        b   == FDiv(FInt(color.B), F255)
        max == MaxOf(r, g, b)
        min == MinOf(r, g, b)
        d   == FSub(max, min)
    IN  {F255}
        \cup (IF FEqual(max, F0) THEN {} ELSE {max})
        \cup (IF ~FEqual(d, F0) THEN {d, F6} ELSE {})

\* mutant: a negative hue of the red sector is not moved up by 6
convertToHsbColor_NoWrap(color) ==
    LET r   == FDiv(FInt(color.R), F255)
        g   == FDiv(FInt(color.G), F255)
        b   == FDiv(FInt(color.B), F255)
        max == MaxOf(r, g, b)
        min == MinOf(r, g, b)
        d   == FSub(max, min)
        S   == IF FEqual(max, F0) THEN F0 ELSE FDiv(d, max)
        H   == IF FEqual(r, max)
               THEN FDiv(FSub(g, b), d)
               ELSE IF FEqual(g, max)
                    THEN FAdd(FDiv(FSub(b, r), d), F2)
                    ELSE FAdd(FDiv(FSub(r, g), d), F4)
    IN  IF ~FEqual(d, F0)
        THEN HsbColor(FDiv(H, F6), S, max)
        ELSE HsbColor(F0, S, max)

convertToHsbColor(color) ==
    LET r   == FDiv(FInt(color.R), F255)
        g   == FDiv(FInt(color.G), F255)
        b   == FDiv(FInt(color.B), F255)
        max == MaxOf(r, g, b)
        min == MinOf(r, g, b)
        d   == FSub(max, min)
        S   == IF FEqual(max, F0) THEN F0 ELSE FDiv(d, max)
        H   == IF FEqual(r, max)
               THEN FAdd(FDiv(FSub(g, b), d), IF FLess(g, b) THEN F6 ELSE F0)
               ELSE IF FEqual(g, max)
                    THEN FAdd(FDiv(FSub(b, r), d), F2)
                    ELSE FAdd(FDiv(FSub(r, g), d), F4)
    IN  IF ~FEqual(d, F0)
        THEN HsbColor(FDiv(H, F6), S, max)
        ELSE HsbColor(F0, S, max)

\* mutant: a negative t is not wrapped into [0,1]
_CalcColor_NoWrap(p, q, t0) ==
    LET t == IF FGreater(t0, F1) THEN FSub(t0, F1) ELSE t0
    IN  IF FLess(t, FSixth)
        THEN FAdd(p, FMul(FMul(FSub(q, p), F6), t))
        ELSE IF FLess(t, FHalf) THEN q
        ELSE IF FLess(t, FTwoThirds)
             THEN FAdd(p, FMul(FMul(FSub(q, p), FSub(FTwoThirds, t)), F6))
             ELSE p

_CalcColor(p, q, t0) ==
    LET t1 == IF FLess(t0, F0) THEN FAdd(t0, F1) ELSE t0
        t  == IF FGreater(t1, F1) THEN FSub(t1, F1) ELSE t1
    IN  IF FLess(t, FSixth)
        THEN FAdd(p, FMul(FMul(FSub(q, p), F6), t))
        ELSE IF FLess(t, FHalf) THEN q
        ELSE IF FLess(t, FTwoThirds)
             THEN FAdd(p, FMul(FMul(FSub(q, p), FSub(FTwoThirds, t)), F6))
             ELSE p

\* mutant: the achromatic branch takes the saturation for the lightness
HslToFloats_AchromaticS(color) ==
    LET h == color.H
        s == color.S
        l == color.L
        q == IF FLess(l, FHalf)
             THEN FMul(l, FAdd(F1, s))
             ELSE FSub(FAdd(l, s), FMul(l, s))
        p == FSub(FMul(F2, l), q)
    IN  IF FEqual(s, F0) \/ FEqual(l, F0)
        THEN <<s, s, s>>
        ELSE <<_CalcColor(p, q, FAdd(h, FThird)),
               _CalcColor(p, q, h),
               _CalcColor(p, q, FSub(h, FThird))>>

\* the float r, g, b of the HSL conversion, before the scaling by 255
HslToFloats(color) ==
    LET h == color.H
        s == color.S
        l == color.L
        q == IF FLess(l, FHalf)
             THEN FMul(l, FAdd(F1, s))
             ELSE FSub(FAdd(l, s), FMul(l, s))
        p == FSub(FMul(F2, l), q)
    IN  IF FEqual(s, F0) \/ FEqual(l, F0)
        THEN <<l, l, l>>
        ELSE <<_CalcColor(p, q, FAdd(h, FThird)),
               _CalcColor(p, q, h),
               _CalcColor(p, q, FSub(h, FThird))>>

convertToRgbColorHsl(color) ==
    LET f == HslToFloats(color)
    IN  RgbOfFloats(FMul(f[1], F255), FMul(f[2], F255), FMul(f[3], F255))

\* the float overload: abs(p1 - p2) * 100000.f <= min(abs(p1), abs(p2))
fuzzyCompare(p1, p2) ==
    ~FLess(FMin(FAbs(p1), FAbs(p2)), FMul(FAbs(FSub(p1, p2)), FInt(100000)))

\* mutant: the hue is used as it is given
HsbHue_NoWrap(color) == color.H

\* the hue after the correction by one turn
HsbHue(color) ==
    IF FLess(color.H, F0) THEN FAdd(color.H, F1)
    ELSE IF FGreaterEq(color.H, F1) THEN FSub(color.H, F1)
    ELSE color.H

\* the sector index i = (int)(H * 6)
HsbSector(color) == FTruncInt(FMul(HsbHue(color), F6))

convertToRgbColorHsb(color) ==
    IF fuzzyCompare(color.S, F0)
    THEN RgbOfFloats(color.B, color.B, color.B)
    ELSE LET H  == FMul(HsbHue(color), F6)
             i  == HsbSector(color)
             f  == FSub(H, FInt(i))
             q  == FMul(color.B, FSub(F1, FMul(color.S, f)))
             p  == FMul(color.B, FSub(F1, color.S))
             t  == FMul(color.B, FSub(F1, FMul(color.S, FSub(F1, f))))
         IN  CASE i = 0 -> RgbOfFloats(color.B, t, p)
               [] i = 1 -> RgbOfFloats(q, color.B, p)
               [] i = 2 -> RgbOfFloats(p, color.B, t)
               [] i = 3 -> RgbOfFloats(p, q, color.B)
               [] i = 4 -> RgbOfFloats(t, p, color.B)
               [] OTHER -> RgbOfFloats(color.B, p, q)

(***************************************************************************)
(* The call record: the operation, its arguments and the value of the      *)
(* receiver (or of the converted object) before the call.                  *)
(***************************************************************************)
Call(op, arg, pre) == [op |-> op, arg |-> arg, pre |-> pre]

NoCall == Call("construct", <<>>, <<>>)

\* default-constructed objects: every member is value-initialised
RgbDefault  == RgbColor(0, 0, 0)
RgbwDefault == RgbwColor(0, 0, 0, 0)
HslDefault  == HslColor(F0, F0, F0)
HsbDefault  == HsbColor(F0, F0, F0)

\* blend progress values: the floats nearest to i / n
Fractions ==
    UNION {{FDiv(FInt(i), FInt(n)) : i \in 0..n} : n \in 1..MaxDenom}

\* colours handed to the blends
BlendRgb == {RgbColor(10, 20, 30), RgbColor(200, 100, 50), RgbColor(255, 0, 15)}

BlendRgbw == {RgbwColor(10, 20, 30, 40), RgbwColor(200, 100, 50, 0),
              RgbwColor(255, 0, 15, 255)}

\* RgbColor objects the integer operations start from
RgbInit ==
    {RgbColor(a, b, 255 - a) : a \in ChanVals, b \in ChanVals}
    \cup {RgbColorBrightness(a) : a \in ChanVals}

\* RgbwColor objects the integer operations start from
RgbwInit ==
    {RgbwColor(a, b, 255 - a, 255 - b) : a \in ChanVals, b \in ChanVals}
    \cup {RgbwColorBrightness(a) : a \in ChanVals}
    \cup {RgbwColor(a, a, a, 255 - a) : a \in ChanVals}
    \cup {RgbwColorFromRgb(RgbColor(a, 255 - a, a)) : a \in ChanVals}

Init ==
    /\ \/ rgb \in RgbInit /\ rgbw = RgbwDefault
       \/ rgb = RgbDefault /\ rgbw \in RgbwInit
    /\ hsl = HslDefault
    /\ hsb = HsbDefault
    /\ ret = 0
    /\ call = NoCall
    /\ prev = NoCall
    /\ ncalls = 0

\* the bookkeeping every call shares
Record(op, arg, pre) ==
    /\ ncalls < MaxCalls
    /\ ncalls' = ncalls + 1
    /\ prev' = call
    /\ call' = Call(op, arg, pre)

(***************************************************************************)
(* Integer operations on the RgbColor object.                              *)
(***************************************************************************)
RgbDim(ratio) ==
    /\ Record("RgbColor::Dim", ratio, rgb)
    /\ rgb' = RgbColor_Dim(rgb, ratio)
    /\ UNCHANGED <<ret, rgbw, hsl, hsb>>

RgbBrighten(ratio) ==
    /\ Record("RgbColor::Brighten", ratio, rgb)
    /\ rgb' = RgbColor_Brighten(rgb, ratio)
    /\ UNCHANGED <<ret, rgbw, hsl, hsb>>

RgbDarken(delta) ==
    /\ Record("RgbColor::Darken", delta, rgb)
    /\ rgb' = RgbColor_Darken(rgb, delta)
    /\ UNCHANGED <<ret, rgbw, hsl, hsb>>

RgbLighten(delta) ==
    /\ Record("RgbColor::Lighten", delta, rgb)
    /\ rgb' = RgbColor_Lighten(rgb, delta)
    /\ UNCHANGED <<ret, rgbw, hsl, hsb>>

(***************************************************************************)
(* Integer operations on the RgbwColor object.                             *)
(***************************************************************************)
RgbwDim(ratio) ==
    /\ Record("RgbwColor::Dim", ratio, rgbw)
    /\ rgbw' = RgbwColor_Dim(rgbw, ratio)
    /\ UNCHANGED <<ret, rgb, hsl, hsb>>

RgbwBrighten(ratio) ==
    /\ Record("RgbwColor::Brighten", ratio, rgbw)
    /\ rgbw' = RgbwColor_Brighten(rgbw, ratio)
    /\ UNCHANGED <<ret, rgb, hsl, hsb>>

RgbwDarken(delta) ==
    /\ Record("RgbwColor::Darken", delta, rgbw)
    /\ rgbw' = RgbwColor_Darken(rgbw, delta)
    /\ UNCHANGED <<ret, rgb, hsl, hsb>>

RgbwLighten(delta) ==
    /\ Record("RgbwColor::Lighten", delta, rgbw)
    /\ rgbw' = RgbwColor_Lighten(rgbw, delta)
    /\ UNCHANGED <<ret, rgb, hsl, hsb>>

Next ==
    \/ \E ratio \in Ratios : RgbDim(ratio)
    \/ \E ratio \in Ratios : RgbBrighten(ratio)
    \/ \E delta \in Deltas : RgbDarken(delta)
    \/ \E delta \in Deltas : RgbLighten(delta)
    \/ \E ratio \in Ratios : RgbwDim(ratio)
    \/ \E ratio \in Ratios : RgbwBrighten(ratio)
    \/ \E delta \in Deltas : RgbwDarken(delta)
    \/ \E delta \in Deltas : RgbwLighten(delta)

Spec == Init /\ [][Next]_vars

(***************************************************************************)
(* Blends.  They are static functions of their arguments alone, so one     *)
(* call on freshly constructed objects stands for every call.              *)
(***************************************************************************)
InitBlend ==
    /\ rgb = RgbDefault
    /\ rgbw = RgbwDefault
    /\ hsl = HslDefault
    /\ hsb = HsbDefault
    /\ ret = 0
    /\ call = NoCall
    /\ prev = NoCall
    /\ ncalls = 0

RecordStatic(op, arg) ==
    /\ ncalls = 0
    /\ ncalls' = 1
    /\ prev' = call
    /\ call' = Call(op, arg, <<>>)

RgbLinearBlend(left, right, progress) ==
    /\ RecordStatic("RgbColor::LinearBlend",
                    [left |-> left, right |-> right, progress |-> progress])
    /\ rgb' \in RgbColor_LinearBlend(left, right, progress)
    /\ UNCHANGED <<ret, rgbw, hsl, hsb>>

RgbwLinearBlend(left, right, progress) ==
    /\ RecordStatic("RgbwColor::LinearBlend",
                    [left |-> left, right |-> right, progress |-> progress])
    /\ rgbw' \in RgbwColor_LinearBlend(left, right, progress)
    /\ UNCHANGED <<ret, rgb, hsl, hsb>>

RgbBilinearBlend(c00, c01, c10, c11, x, y) ==
    /\ RecordStatic("RgbColor::BilinearBlend",
                    [c00 |-> c00, c01 |-> c01, c10 |-> c10, c11 |-> c11,
                     x |-> x, y |-> y])
    /\ rgb' \in RgbColor_BilinearBlend(c00, c01, c10, c11, x, y)
    /\ UNCHANGED <<ret, rgbw, hsl, hsb>>

RgbwBilinearBlend(c00, c01, c10, c11, x, y) ==
    /\ RecordStatic("RgbwColor::BilinearBlend",
                    [c00 |-> c00, c01 |-> c01, c10 |-> c10, c11 |-> c11,
                     x |-> x, y |-> y])
    /\ rgbw' \in RgbwColor_BilinearBlend(c00, c01, c10, c11, x, y)
    /\ UNCHANGED <<ret, rgb, hsl, hsb>>

NextBlend ==
    \/ \E left \in BlendRgb, right \in BlendRgb, progress \in Fractions :
          RgbLinearBlend(left, right, progress)
    \/ \E left \in BlendRgbw, right \in BlendRgbw, progress \in Fractions :
          RgbwLinearBlend(left, right, progress)
    \/ \E c00 \in BlendRgb, c01 \in BlendRgb, c10 \in BlendRgb,
          c11 \in BlendRgb, x \in Fractions, y \in Fractions :
          RgbBilinearBlend(c00, c01, c10, c11, x, y)
    \/ \E c00 \in BlendRgbw, c01 \in BlendRgbw, c10 \in BlendRgbw,
          c11 \in BlendRgbw, x \in Fractions, y \in Fractions :
          RgbwBilinearBlend(c00, c01, c10, c11, x, y)

SpecBlend == InitBlend /\ [][NextBlend]_vars

(***************************************************************************)
(* Conversions between the colour spaces: the converting constructors.     *)
(***************************************************************************)
\* channel values of the colours that are converted
ConvVals == (0..EdgeWidth) \cup {32, 64, 128} \cup ((255 - EdgeWidth)..255)

ConvRgb == {RgbColor(r, g, b) : r \in ConvVals, g \in ConvVals, b \in ConvVals}

\* saturations, lightnesses and brightnesses the float colours are built of
UnitVals == {F0, FHalf, F1}

HslInputs ==
    {HslColor(h, s, l) : h \in Fractions, s \in Fractions, l \in Fractions}

\* hues: the fractions of a turn, also shifted by whole turns, and a
\* negative hue so small that adding one turn to it gives 1.0
HueVals ==
    {FAdd(h, FInt(k)) : h \in Fractions, k \in -2..2}
    \cup {FNeg(FDyadic(1, 30))}

\* non-zero saturations next to zero
NearZero == {FDyadic(1, 30), FDyadic(1, 24), FDyadic(1, 17)}

\* brightnesses: the unit values and the top of the byte scale
BrightVals == UnitVals \cup {F255}

HsbInputs ==
    {HsbColor(h, s, b) : h \in HueVals, s \in UnitVals \cup NearZero,
                         b \in BrightVals}

InitConv ==
    /\ \/ rgb \in ConvRgb /\ hsl = HslDefault /\ hsb = HsbDefault
       \/ rgb = RgbDefault /\ hsl \in HslInputs /\ hsb = HsbDefault
       \/ rgb = RgbDefault /\ hsl = HslDefault /\ hsb \in HsbInputs
    /\ rgbw = RgbwDefault
    /\ ret = 0
    /\ call = NoCall
    /\ prev = NoCall
    /\ ncalls = 0

\* hsl = HslColor(rgb)
HslFromRgb ==
    /\ Record("HslColor::HslColor(RgbColor)", <<>>, rgb)
    /\ hsl' = convertToHslColor(rgb)
    /\ UNCHANGED <<ret, rgb, rgbw, hsb>>

\* rgb = RgbColor(hsl)
RgbFromHsl ==
    /\ Record("RgbColor::RgbColor(HslColor)", <<>>, hsl)
    /\ rgb' \in convertToRgbColorHsl(hsl)
    /\ UNCHANGED <<ret, rgbw, hsl, hsb>>

\* hsb = HsbColor(rgb)
HsbFromRgb ==
    /\ Record("HsbColor::HsbColor(RgbColor)", <<>>, rgb)
    /\ hsb' = convertToHsbColor(rgb)
    /\ UNCHANGED <<ret, rgb, rgbw, hsl>>

\* rgb = RgbColor(hsb)
RgbFromHsb ==
    /\ Record("RgbColor::RgbColor(HsbColor)", <<>>, hsb)
    /\ rgb' \in convertToRgbColorHsb(hsb)
    /\ UNCHANGED <<ret, rgbw, hsl, hsb>>

NextConv ==
    \/ HslFromRgb
    \/ RgbFromHsl
    \/ HsbFromRgb
    \/ RgbFromHsb

SpecConv == InitConv /\ [][NextConv]_vars

(***************************************************************************)
(* Current estimation: a const method, so one call on a constructed object *)
(* stands for every call.                                                  *)
(***************************************************************************)
\* per-channel currents of the settings objects
CurrentVals == {0, 160, 40000, U16 - 1}

RgbSettings ==
    {NeoRgbCurrentSettings(r, g, b) :
        r \in CurrentVals, g \in CurrentVals, b \in CurrentVals}

RgbwSettings ==
    {NeoRgbwCurrentSettings(r, g, b, w) :
        r \in CurrentVals, g \in CurrentVals, b \in CurrentVals,
        w \in CurrentVals}

\* ret = rgb.CalcTotalTenthMilliAmpere(settings)
RgbCalcTotal(settings) ==
    /\ ncalls = 0
    /\ Record("RgbColor::CalcTotalTenthMilliAmpere", settings, rgb)
    /\ ret' = RgbColor_CalcTotalTenthMilliAmpere(rgb, settings)
    /\ UNCHANGED <<rgb, rgbw, hsl, hsb>>

\* ret = rgbw.CalcTotalTenthMilliAmpere(settings)
RgbwCalcTotal(settings) ==
    /\ ncalls = 0
    /\ Record("RgbwColor::CalcTotalTenthMilliAmpere", settings, rgbw)
    /\ ret' = RgbwColor_CalcTotalTenthMilliAmpere(rgbw, settings)
    /\ UNCHANGED <<rgb, rgbw, hsl, hsb>>

NextCurrent ==
    \/ \E settings \in RgbSettings : RgbCalcTotal(settings)
    \/ \E settings \in RgbwSettings : RgbwCalcTotal(settings)

SpecCurrent == Init /\ [][NextCurrent]_vars

(***************************************************************************)
(* RgbwColor next to RgbColor: the converting constructor, the operations  *)
(* both types have, and the linear blend.                                  *)
(***************************************************************************)
\* rgbw = RgbwColor(rgb)
RgbwFromRgb ==
    /\ Record("RgbwColor::RgbwColor(RgbColor)", <<>>, rgb)
    /\ rgbw' = RgbwColorFromRgb(rgb)
    /\ UNCHANGED <<ret, rgb, hsl, hsb>>

NextRgbw ==
    \/ RgbwFromRgb
    \/ \E ratio \in Ratios : RgbwDim(ratio)
    \/ \E ratio \in Ratios : RgbwBrighten(ratio)
    \/ \E delta \in Deltas : RgbwDarken(delta)
    \/ \E left \in BlendRgbw, right \in BlendRgbw, progress \in Fractions :
          RgbwLinearBlend(left, right, progress)

SpecRgbw == Init /\ [][NextRgbw]_vars

(***************************************************************************)
(* Dim and Brighten over the whole range of channel values and ratios: one *)
(* call on a constructed object whose channels are v and 255 - v.          *)
(***************************************************************************)
Bytes == 0..(U8 - 1)

InitScale ==
    /\ \/ rgb \in {RgbColor(v, 255 - v, v) : v \in 0..127}
          /\ rgbw = RgbwDefault
       \/ rgb = RgbDefault
          /\ rgbw \in {RgbwColor(v, 255 - v, v, 255 - v) : v \in 0..127}
    /\ hsl = HslDefault
    /\ hsb = HsbDefault
    /\ ret = 0
    /\ call = NoCall
    /\ prev = NoCall
    /\ ncalls = 0

NextScale ==
    /\ ncalls = 0
    /\ \/ \E ratio \in Bytes : RgbDim(ratio)
       \/ \E ratio \in Bytes : RgbBrighten(ratio)
       \/ \E ratio \in Bytes : RgbwDim(ratio)
       \/ \E ratio \in Bytes : RgbwBrighten(ratio)

SpecScale == InitScale /\ [][NextScale]_vars

(***************************************************************************)
(* A caller that repeats one in-place adjustment for ever, as in           *)
(*     for (;;) { color.Darken(delta); }                                   *)
(* The first call fixes the method and the delta, every later call is the  *)
(* same call again.  The loop has no last iteration, so the number of      *)
(* calls is counted up to MaxCalls only and the call record keeps the last *)
(* two calls.                                                              *)
(***************************************************************************)
RecordRepeated(op, arg, pre) ==
    /\ call = NoCall \/ (call.op = op /\ call.arg = arg)
    /\ ncalls' = IF ncalls < MaxCalls THEN ncalls + 1 ELSE ncalls
    /\ prev' = call
    /\ call' = Call(op, arg, pre)

RgbDarkenRepeated(delta) ==
    /\ RecordRepeated("RgbColor::Darken", delta, rgb)
    /\ rgb' = RgbColor_Darken(rgb, delta)
    /\ UNCHANGED <<ret, rgbw, hsl, hsb>>

RgbLightenRepeated(delta) ==
    /\ RecordRepeated("RgbColor::Lighten", delta, rgb)
    /\ rgb' = RgbColor_Lighten(rgb, delta)
    /\ UNCHANGED <<ret, rgbw, hsl, hsb>>

RgbwDarkenRepeated(delta) ==
    /\ RecordRepeated("RgbwColor::Darken", delta, rgbw)
    /\ rgbw' = RgbwColor_Darken(rgbw, delta)
    /\ UNCHANGED <<ret, rgb, hsl, hsb>>

RgbwLightenRepeated(delta) ==
    /\ RecordRepeated("RgbwColor::Lighten", delta, rgbw)
    /\ rgbw' = RgbwColor_Lighten(rgbw, delta)
    /\ UNCHANGED <<ret, rgb, hsl, hsb>>

NextRepeat ==
    \/ \E delta \in Deltas : RgbDarkenRepeated(delta)
    \/ \E delta \in Deltas : RgbLightenRepeated(delta)
    \/ \E delta \in Deltas : RgbwDarkenRepeated(delta)
    \/ \E delta \in Deltas : RgbwLightenRepeated(delta)

\* the loop never stops: a call that can be made is made
SpecRepeat == Init /\ [][NextRepeat]_vars /\ WF_vars(NextRepeat)

(***************************************************************************)
(* Properties.                                                             *)
(***************************************************************************)
Abs(n) == IF n < 0 THEN -n ELSE n

Max(a, b) == IF a > b THEN a ELSE b

Min(a, b) == IF a < b THEN a ELSE b

Channels3 == {"R", "G", "B"}

Channels4 == {"R", "G", "B", "W"}

\* every channel of colour c is within tol of the same channel of colour d
Within(c, d, tol, chans) == \A ch \in chans : Abs(c[ch] - d[ch]) <= tol

\* the last two calls were rgb = rgb.Dim(r) and then rgb = rgb.Brighten(r)
DimThenBrighten ==
    /\ prev.op = "RgbColor::Dim"
    /\ call.op = "RgbColor::Brighten"
    /\ call.arg = prev.arg

\* C1 (as stated): for every RgbColor c and every ratio r in 0..255, each
\* channel of c.Dim(r).Brighten(r) differs from the same channel of c by at
\* most 2.
C1_AsStated == DimThenBrighten => Within(rgb, prev.pre, 2, Channels3)

\* C1 (amended): for every RgbColor c and every ratio r in 64..255, each
\* channel of c.Dim(r).Brighten(r) differs from the same channel of c by at
\* most 2.
C1_RoundTripFrom64 ==
    (DimThenBrighten /\ call.arg >= 64) => Within(rgb, prev.pre, 2, Channels3)

\* a round trip at a ratio of at least 64 that loses exactly 2 on a channel
C1_Witness ==
    /\ DimThenBrighten
    /\ call.arg >= 64
    /\ \E ch \in Channels3 : Abs(rgb[ch] - prev.pre[ch]) = 2

\* C2: Dim(255) returns the original colour, Dim(0) returns black, and for
\* any ratio each channel is (value * (ratio + 1)) >> 8; for RgbColor and
\* for RgbwColor.
C2_Dim ==
    /\ call.op = "RgbColor::Dim" =>
          /\ \A ch \in Channels3 :
                rgb[ch] = (call.pre[ch] * (call.arg + 1)) \div 256
          /\ call.arg = 255 => rgb = call.pre
          /\ call.arg = 0 => rgb = RgbColor(0, 0, 0)
    /\ call.op = "RgbwColor::Dim" =>
          /\ \A ch \in Channels4 :
                rgbw[ch] = (call.pre[ch] * (call.arg + 1)) \div 256
          /\ call.arg = 255 => rgbw = call.pre
          /\ call.arg = 0 => rgbw = RgbwColor(0, 0, 0, 0)

\* Dim(255) of a colour with a full, a middle and an empty channel
C2_Witness ==
    /\ call.op = "RgbColor::Dim"
    /\ call.arg = 255
    /\ call.pre = RgbColor(255, 128, 0)
    /\ rgb = call.pre

\* C3: Brighten(255) returns the original colour and Brighten(0) returns
\* white, for every channel value, 255 included, where (value + 1) << 8 is
\* 65536 and does not fit the 16-bit element; for RgbColor and RgbwColor.
C3_Brighten ==
    /\ call.op = "RgbColor::Brighten" =>
          /\ call.arg = 255 => rgb = call.pre
          /\ call.arg = 0 => rgb = RgbColor(255, 255, 255)
    /\ call.op = "RgbwColor::Brighten" =>
          /\ call.arg = 255 => rgbw = call.pre
          /\ call.arg = 0 => rgbw = RgbwColor(255, 255, 255, 255)

\* Brighten(0) of a colour with a channel at 255: the element wraps to 0
C3_Witness ==
    /\ call.op = "RgbwColor::Brighten"
    /\ call.arg = 0
    /\ call.pre.W = 255
    /\ (((call.pre.W + 1) * 256) \div (call.arg + 1)) % U16 = 0
    /\ rgbw.W = 255

\* C4: Darken and Lighten saturate: RgbColor.Darken and RgbwColor.Darken set
\* every channel (W included) to max(0, value - delta), RgbColor.Lighten sets
\* every channel to min(255, value + delta).
C4_Saturating ==
    /\ call.op = "RgbColor::Darken" =>
          \A ch \in Channels3 : rgb[ch] = Max(0, call.pre[ch] - call.arg)
    /\ call.op = "RgbwColor::Darken" =>
          \A ch \in Channels4 : rgbw[ch] = Max(0, call.pre[ch] - call.arg)
    /\ call.op = "RgbColor::Lighten" =>
          \A ch \in Channels3 : rgb[ch] = Min(255, call.pre[ch] + call.arg)

\* a Darken that saturates one channel at 0 and only lowers another
C4_Witness ==
    /\ call.op = "RgbColor::Darken"
    /\ call.pre.R < call.arg
    /\ call.pre.R > 0
    /\ rgb.R = 0
    /\ call.pre.B > call.arg
    /\ rgb.B = call.pre.B - call.arg

\* C5: RgbwColor.Lighten changes only W when the colour is colourless (W
\* becomes min(255, W + delta), R, G, B stay 0); otherwise it sets each of
\* R, G, B to min(255, value + delta) and leaves W unchanged.
C5_Lighten ==
    call.op = "RgbwColor::Lighten" =>
        IF call.pre.R = 0 /\ call.pre.G = 0 /\ call.pre.B = 0
        THEN /\ rgbw.W = Min(255, call.pre.W + call.arg)
             /\ rgbw.R = 0 /\ rgbw.G = 0 /\ rgbw.B = 0
        ELSE /\ \A ch \in Channels3 :
                   rgbw[ch] = Min(255, call.pre[ch] + call.arg)
             /\ rgbw.W = call.pre.W

\* a Lighten of a coloured object whose W could have grown but did not
C5_Witness ==
    /\ call.op = "RgbwColor::Lighten"
    /\ call.arg > 0
    /\ call.pre.R > 0
    /\ call.pre.W < 255
    /\ rgbw.R > call.pre.R
    /\ rgbw.W = call.pre.W

\* C6: LinearBlend(left, right, 0.0) is left and LinearBlend(left, right,
\* 1.0) is right, for RgbColor and RgbwColor, also when a channel of right is
\* smaller than the channel of left.
C6_LinearBlendEnds ==
    /\ call.op = "RgbColor::LinearBlend" =>
          /\ call.arg.progress = F0 => rgb = call.arg.left
          /\ call.arg.progress = F1 => rgb = call.arg.right
    /\ call.op = "RgbwColor::LinearBlend" =>
          /\ call.arg.progress = F0 => rgbw = call.arg.left
          /\ call.arg.progress = F1 => rgbw = call.arg.right

\* a blend at progress 1.0 towards a colour that is smaller on every channel
C6_Witness ==
    /\ call.op = "RgbwColor::LinearBlend"
    /\ call.arg.progress = F1
    /\ call.arg.left = RgbwColor(200, 100, 50, 0)
    /\ call.arg.right = RgbwColor(10, 20, 30, 40)
    /\ rgbw = call.arg.right

\* the last call was RgbColor::BilinearBlend(A, A, A, A, x, y)
DegenerateBilinear ==
    /\ call.op = "RgbColor::BilinearBlend"
    /\ call.arg.c01 = call.arg.c00
    /\ call.arg.c10 = call.arg.c00
    /\ call.arg.c11 = call.arg.c00

\* C7 (as stated): for every RgbColor A and every x, y in [0,1],
\* BilinearBlend(A, A, A, A, x, y) equals A.
C7_AsStated == DegenerateBilinear => rgb = call.arg.c00

\* C7 (amended): for every RgbColor A and every x, y in [0,1], each channel
\* of BilinearBlend(A, A, A, A, x, y) is the channel of A or one less.
C7_DegenerateWithinOne ==
    DegenerateBilinear =>
        \A ch \in Channels3 :
            rgb[ch] = call.arg.c00[ch] \/ rgb[ch] = call.arg.c00[ch] - 1

\* a blend of four equal colours that loses one on a channel
C7_Witness ==
    /\ DegenerateBilinear
    /\ \E ch \in Channels3 : rgb[ch] = call.arg.c00[ch] - 1

\* C8: BilinearBlend returns the upper-left colour c00 at (x, y) = (0, 0),
\* the upper-right colour c01 at (1, 0), the lower-left colour c10 at (0, 1)
\* and the lower-right colour c11 at (1, 1).
C8_Corners ==
    /\ call.op = "RgbColor::BilinearBlend" =>
          /\ (call.arg.x = F0 /\ call.arg.y = F0) => rgb = call.arg.c00
          /\ (call.arg.x = F1 /\ call.arg.y = F0) => rgb = call.arg.c01
          /\ (call.arg.x = F0 /\ call.arg.y = F1) => rgb = call.arg.c10
          /\ (call.arg.x = F1 /\ call.arg.y = F1) => rgb = call.arg.c11
    /\ call.op = "RgbwColor::BilinearBlend" =>
          /\ (call.arg.x = F0 /\ call.arg.y = F0) => rgbw = call.arg.c00
          /\ (call.arg.x = F1 /\ call.arg.y = F0) => rgbw = call.arg.c01
          /\ (call.arg.x = F0 /\ call.arg.y = F1) => rgbw = call.arg.c10
          /\ (call.arg.x = F1 /\ call.arg.y = F1) => rgbw = call.arg.c11

\* the last two calls were hsl = HslColor(rgb) and then rgb = RgbColor(hsl)
HslRoundTrip ==
    /\ prev.op = "HslColor::HslColor(RgbColor)"
    /\ call.op = "RgbColor::RgbColor(HslColor)"

\* C9: for every RgbColor c, converting c to HslColor and back to RgbColor
\* reproduces c within plus or minus 1 on every channel.
C9_HslRoundTrip == HslRoundTrip => Within(rgb, prev.pre, 1, Channels3)

\* the round trip of the colour (128, 64, 32), which loses 1 on G and on B
C9_Witness ==
    /\ HslRoundTrip
    /\ prev.pre = RgbColor(128, 64, 32)
    /\ rgb = RgbColor(128, 63, 31)

\* the last two calls were hsb = HsbColor(rgb) and then rgb = RgbColor(hsb)
HsbRoundTrip ==
    /\ prev.op = "HsbColor::HsbColor(RgbColor)"
    /\ call.op = "RgbColor::RgbColor(HsbColor)"

\* C10: the HSB to RGB conversion produces channels on the 0..255 scale: for
\* every RgbColor c, converting c to HsbColor and back to RgbColor reproduces
\* c within plus or minus 1 on every channel, and an achromatic HsbColor with
\* S = 0 and B = 1.0 converts to white (255, 255, 255).
C10_HsbScale ==
    /\ HsbRoundTrip => Within(rgb, prev.pre, 1, Channels3)
    /\ (/\ call.op = "RgbColor::RgbColor(HsbColor)"
        /\ call.pre.S = F0
        /\ call.pre.B = F1) => rgb = RgbColor(255, 255, 255)

\* the last call was rgb = RgbColor(hsb) with a saturation that is not taken
\* for zero
HsbChromatic ==
    /\ call.op = "RgbColor::RgbColor(HsbColor)"
    /\ ~fuzzyCompare(call.pre.S, F0)

\* the hue h, as a float, differs from the float it returns by exactly k turns
ShiftedHue(h, k) == FAdd(h, FInt(k))

ExactShift(h, k) == FSub(ShiftedHue(h, k), FInt(k)) = h

\* -1 <= h < 2: the hues one correction by a whole turn brings near [0,1)
InWrapRange(h) == FGreaterEq(h, FInt(-1)) /\ FLess(h, F2)

\* C11 (as stated): for every HsbColor with non-zero saturation and any hue
\* H, the sector index lies in 0..5 and two hues that differ by a whole
\* number convert to the same RgbColor.
C11_AsStated ==
    HsbChromatic =>
        /\ HsbSector(call.pre) \in 0..5
        /\ \A k \in -2..2 :
              ExactShift(call.pre.H, k) =>
                 rgb \in convertToRgbColorHsb(
                            [call.pre EXCEPT !.H = ShiftedHue(call.pre.H, k)])

\* C11 (amended): the hue is corrected by one turn only.  For -1 <= H < 2 the
\* sector index lies in 0..5 when H >= 0 and in 0..6 when H < 0 (H + 1 can
\* round to 1.0), and H converts to the same RgbColor as each of H + 1 and
\* H - 1 that lies in the same range.
C11_HueWrapsOnce ==
    (HsbChromatic /\ InWrapRange(call.pre.H)) =>
        /\ HsbSector(call.pre) \in 0..6
        /\ FGreaterEq(call.pre.H, F0) => HsbSector(call.pre) \in 0..5
        /\ \A k \in {-1, 1} :
              (ExactShift(call.pre.H, k)
                 /\ InWrapRange(ShiftedHue(call.pre.H, k))) =>
                 rgb \in convertToRgbColorHsb(
                            [call.pre EXCEPT !.H = ShiftedHue(call.pre.H, k)])

\* the hue 1.5 is converted like the hue 0.5: sector 3, cyan
C11_Witness ==
    /\ HsbChromatic
    /\ call.pre = HsbColor(FAdd(FHalf, F1), F1, F255)
    /\ HsbSector(call.pre) = 3
    /\ rgb = RgbColor(0, 255, 255)

\* the non-zero saturations 2^-k down to the smallest normal float
TinySaturations == {FDyadic(1, k) : k \in 1..126}

\* the result of the achromatic branch for the colour c: R = G = B
Achromatic(c) == RgbOfFloats(c.B, c.B, c.B)

\* C12: the achromatic test of the HSB to RGB conversion is a tolerance
\* comparison of S with 0: where a non-zero saturation close to 0 is
\* converted, there is a non-zero saturation for which fuzzyCompare(S, 0)
\* holds and the colour is converted by the achromatic branch R = G = B.
C12_FuzzyAchromatic ==
    (call.op = "RgbColor::RgbColor(HsbColor)" /\ call.pre.S \in NearZero) =>
        \E s \in TinySaturations :
            /\ fuzzyCompare(s, F0)
            /\ convertToRgbColorHsb([call.pre EXCEPT !.S = s])
                  = Achromatic(call.pre)

\* floor(v * current / 255)
ChannelCurrent(v, current) == (v * current) \div 255

\* C13: CalcTotalTenthMilliAmpere returns exactly floor(R*Red/255) +
\* floor(G*Green/255) + floor(B*Blue/255) + floor(W*White/255) for an
\* RgbwColor, with no truncation or wraparound of the total, and the sum of
\* the first three terms for an RgbColor.
C13_TotalCurrent ==
    /\ call.op = "RgbwColor::CalcTotalTenthMilliAmpere" =>
          ret = ChannelCurrent(call.pre.R, call.arg.RedTenthMilliAmpere)
                + ChannelCurrent(call.pre.G, call.arg.GreenTenthMilliAmpere)
                + ChannelCurrent(call.pre.B, call.arg.BlueTenthMilliAmpere)
                + ChannelCurrent(call.pre.W, call.arg.WhiteCurrent)
    /\ call.op = "RgbColor::CalcTotalTenthMilliAmpere" =>
          ret = ChannelCurrent(call.pre.R, call.arg.RedTenthMilliAmpere)
                + ChannelCurrent(call.pre.G, call.arg.GreenTenthMilliAmpere)
                + ChannelCurrent(call.pre.B, call.arg.BlueTenthMilliAmpere)

\* the R, G and B channels of an RgbwColor, as an RgbColor
RgbPart(c) == RgbColor(c.R, c.G, c.B)

\* C14: RgbwColor(RgbColor c) has the channels of c and W = 0, and the R, G
\* and B channels that RgbwColor's Dim, Brighten, Darken and LinearBlend
\* produce are those the same RgbColor operation produces on the same R, G
\* and B values and arguments.
C14_RgbwExtendsRgb ==
    /\ call.op = "RgbwColor::RgbwColor(RgbColor)" =>
          rgbw = RgbwColor(call.pre.R, call.pre.G, call.pre.B, 0)
    /\ call.op = "RgbwColor::Dim" =>
          RgbPart(rgbw) = RgbColor_Dim(RgbPart(call.pre), call.arg)
    /\ call.op = "RgbwColor::Brighten" =>
          RgbPart(rgbw) = RgbColor_Brighten(RgbPart(call.pre), call.arg)
    /\ call.op = "RgbwColor::Darken" =>
          RgbPart(rgbw) = RgbColor_Darken(RgbPart(call.pre), call.arg)
    /\ call.op = "RgbwColor::LinearBlend" =>
          RgbPart(rgbw) \in RgbColor_LinearBlend(RgbPart(call.arg.left),
                                                 RgbPart(call.arg.right),
                                                 call.arg.progress)

\* a coloured RgbwColor with a white part is dimmed to a quarter
C14_Witness ==
    /\ call.op = "RgbwColor::Dim"
    /\ call.arg = 63
    /\ call.pre = RgbwColor(255, 128, 0, 127)
    /\ rgbw = RgbwColor(63, 32, 0, 31)

\* C15: colourlessness is absorbing under Lighten, Darken and Dim: a call of
\* one of them on a colourless RgbwColor (R = G = B = 0, any W) leaves R, G
\* and B at 0, so they are still 0 after any sequence of such calls; and a
\* Lighten call on a non-colourless RgbwColor leaves it non-colourless and
\* leaves W as it was.
C15_ColorLessAbsorbing ==
    /\ (/\ call.op \in {"RgbwColor::Lighten", "RgbwColor::Darken",
                        "RgbwColor::Dim"}
        /\ IsColorLess(call.pre)) => IsColorLess(rgbw)
    /\ (call.op = "RgbwColor::Lighten" /\ ~IsColorLess(call.pre)) =>
          (~IsColorLess(rgbw) /\ rgbw.W = call.pre.W)
    /\ (/\ prev.op = "RgbwColor::Lighten"
        /\ call.op = "RgbwColor::Lighten"
        /\ ~IsColorLess(prev.pre)) =>
          (~IsColorLess(rgbw) /\ rgbw.W = prev.pre.W)

\* a colourless white is lightened and then dimmed: only W has changed
C15_Witness ==
    /\ prev.op = "RgbwColor::Lighten"
    /\ call.op = "RgbwColor::Dim"
    /\ prev.pre = RgbwColorBrightness(128)
    /\ prev.arg = 1
    /\ call.pre = RgbwColorBrightness(129)
    /\ IsColorLess(rgbw)
    /\ rgbw.W > 0

\* C16: IsMonotone (R = G = B, any W) is preserved by Dim, Brighten, Darken
\* and Lighten, so a monotone RgbwColor is still monotone after any sequence
\* of such calls; and every colourless colour is monotone.
C16_MonotonePreserved ==
    /\ (/\ call.op \in {"RgbwColor::Dim", "RgbwColor::Brighten",
                        "RgbwColor::Darken", "RgbwColor::Lighten"}
        /\ IsMonotone(call.pre)) => IsMonotone(rgbw)
    /\ IsColorLess(rgbw) => IsMonotone(rgbw)

\* a monotone colour that is not colourless is darkened
C16_Witness ==
    /\ call.op = "RgbwColor::Darken"
    /\ call.arg = 129
    /\ call.pre = RgbwColor(254, 254, 254, 1)
    /\ rgbw = RgbwColor(125, 125, 125, 0)

\* the last two calls converted the same RgbColor to HSL and to HSB
BothFromRgb ==
    /\ {prev.op, call.op} = {"HslColor::HslColor(RgbColor)",
                             "HsbColor::HsbColor(RgbColor)"}
    /\ prev.pre = call.pre

\* C17: for every RgbColor c, the hue of HslColor(c) equals the hue of
\* HsbColor(c), also where two channels tie for the maximum, and both are 0
\* where all three channels are equal.
C17_SameHue ==
    BothFromRgb =>
        /\ hsl.H = hsb.H
        /\ IsMonotone(call.pre) => (hsl.H = F0 /\ hsb.H = F0)

\* red and green tie for the maximum: both hues are 1/6
C17_Witness ==
    /\ BothFromRgb
    /\ call.pre = RgbColor(255, 255, 0)
    /\ hsl.H = FSixth
    /\ hsb.H = FSixth

\* 0 <= a <= 1
InUnit(a) == FGreaterEq(a, F0) /\ ~FGreater(a, F1)

\* 0 <= a < 1
InUnitOpen(a) == FGreaterEq(a, F0) /\ FLess(a, F1)

\* C18: for every RgbColor c, HslColor(c) and HsbColor(c) have a hue in
\* [0,1) and a saturation and lightness or brightness in [0,1]; no division
\* of the conversions has the divisor 0; and a gray c (R = G = B = v) gives
\* H = 0, S = 0 and L = B = v / 255.
C18_Ranges ==
    /\ call.op = "HslColor::HslColor(RgbColor)" =>
          /\ InUnitOpen(hsl.H) /\ InUnit(hsl.S) /\ InUnit(hsl.L)
          /\ F0 \notin HslDivisors(call.pre)
          /\ IsMonotone(call.pre) =>
                hsl = HslColor(F0, F0, FDiv(FInt(call.pre.R), F255))
    /\ call.op = "HsbColor::HsbColor(RgbColor)" =>
          /\ InUnitOpen(hsb.H) /\ InUnit(hsb.S) /\ InUnit(hsb.B)
          /\ F0 \notin HsbDivisors(call.pre)
          /\ IsMonotone(call.pre) =>
                hsb = HsbColor(F0, F0, FDiv(FInt(call.pre.R), F255))

\* floor(a * 255) for a float a in [0,1], computed exactly:
\* floor(255 m / 2^k) = floor(floor(255 m / 256) / 2^(k - 8))
ExactFloor255(a) ==
    IF a.m = 0 \/ -a.e - 8 > 30 THEN 0
    ELSE (a.m - ((a.m + 255) \div 256)) \div 2^(-a.e - 8)

\* the last call was rgb = RgbColor(hsl) with H, S and L in [0,1]
HslInUnitRange ==
    /\ call.op = "RgbColor::RgbColor(HslColor)"
    /\ InUnit(call.pre.H) /\ InUnit(call.pre.S) /\ InUnit(call.pre.L)

\* the float channels of the last conversion
HslChannels == LET f == HslToFloats(call.pre) IN {f[1], f[2], f[3]}

\* S = 0 or L = 0 gives R = G = B = floor(L * 255)
HslAchromatic ==
    (FEqual(call.pre.S, F0) \/ FEqual(call.pre.L, F0)) =>
        rgb = RgbColorBrightness(ExactFloor255(call.pre.L))

\* C19 (as stated): for every HslColor with H, S and L in [0,1] the
\* conversion computes r, g and b in [0,1], each scaled by 255 lies in
\* [0,255] and is in the range of the truncation to 8 bits, and S = 0 or
\* L = 0 gives R = G = B = floor(L * 255).
C19_AsStated ==
    HslInUnitRange =>
        /\ \A c \in HslChannels :
              /\ InUnit(c)
              /\ FGreaterEq(FMul(c, F255), F0)
              /\ ~FGreater(FMul(c, F255), F255)
              /\ FInU8Range(FMul(c, F255))
        /\ HslAchromatic

\* 1.000001, rounded up
OneAndABit == FAdd(F1, FDyadic(9, 23))

\* C19 (amended): r, g and b are at least 0 but can exceed 1 by a rounding
\* error: they are at most 1.000001, so each scaled by 255 is at least 0 and
\* below 256 and the truncation to 8 bits is defined; S = 0 or L = 0 gives
\* R = G = B = floor(L * 255).
C19_HslTruncationDefined ==
    HslInUnitRange =>
        /\ \A c \in HslChannels :
              /\ FGreaterEq(c, F0)
              /\ ~FGreater(c, OneAndABit)
              /\ FGreaterEq(FMul(c, F255), F0)
              /\ FLess(FMul(c, F255), FInt(256))
              /\ FInU8Range(FMul(c, F255))
        /\ HslAchromatic

\* cyan of full saturation: the green channel is computed as 1.00000012
C19_Witness ==
    /\ HslInUnitRange
    /\ call.pre = HslColor(FHalf, F1, FHalf)
    /\ FGreater(HslToFloats(call.pre)[2], F1)
    /\ rgb = RgbColor(0, 255, 254)

\* C20: for every channel value v and every ratio r in 0..255, Dim(r) does
\* not increase and Brighten(r) does not decrease a channel, and Dim is
\* non-decreasing in the ratio: r <= r2 implies Dim(r) <= Dim(r2) on every
\* channel.
C20_DimBrightenMonotone ==
    /\ call.op = "RgbColor::Dim" =>
          \A ch \in Channels3 :
             /\ rgb[ch] <= call.pre[ch]
             /\ \A r2 \in call.arg..255 :
                   rgb[ch] <= RgbColor_elementDim(call.pre[ch], r2)
    /\ call.op = "RgbwColor::Dim" =>
          \A ch \in Channels4 :
             /\ rgbw[ch] <= call.pre[ch]
             /\ \A r2 \in call.arg..255 :
                   rgbw[ch] <= RgbwColor_elementDim(call.pre[ch], r2)
    /\ call.op = "RgbColor::Brighten" =>
          \A ch \in Channels3 : call.pre[ch] <= rgb[ch]
    /\ call.op = "RgbwColor::Brighten" =>
          \A ch \in Channels4 : call.pre[ch] <= rgbw[ch]

\* a colour is dimmed to about a third: no channel has grown
C20_Witness ==
    /\ call.op = "RgbColor::Dim"
    /\ call.arg = 85
    /\ call.pre = RgbColor(55, 200, 55)
    /\ rgb = RgbColor(18, 67, 18)

(***************************************************************************)
(* Repeated Darken and Lighten.                                            *)
(***************************************************************************)
\* the first call of a repetition of op with a delta of at least 1; call.pre
\* is then the colour the repetition started from
FirstOf(op) == ncalls = 1 /\ call.op = op /\ call.arg >= 1

\* white channels of the colours a repetition starts from
WhiteVals == {c.W : c \in RgbwInit}

\* a call on a colour the repetition has ended in leaves the colour as it is
AtEnd ==
    /\ (call.op = "RgbColor::Darken" /\ rgb = RgbColor(0, 0, 0))
           => rgb' = rgb
    /\ (call.op = "RgbColor::Lighten" /\ rgb = RgbColor(255, 255, 255))
           => rgb' = rgb
    /\ (call.op = "RgbwColor::Darken" /\ rgbw = RgbwColor(0, 0, 0, 0))
           => rgbw' = rgbw
    /\ (call.op = "RgbwColor::Lighten"
            /\ (rgbw = RgbwColor(0, 0, 0, 255)
                    \/ (rgbw.R = 255 /\ rgbw.G = 255 /\ rgbw.B = 255)))
           => rgbw' = rgbw

\* C21: a caller that repeats Darken(delta) or Lighten(delta) with one delta
\* of at least 1 reaches a fixed point: Darken ends in black (W included for
\* RgbwColor); Lighten ends in (255,255,255) for RgbColor, in
\* (255,255,255,W0) with the W0 it started from for an RgbwColor that is not
\* colourless, and in (0,0,0,255) for a colourless RgbwColor; and a call made
\* on the colour reached changes nothing.
C21_ReachesFixedPoint ==
    /\ [](FirstOf("RgbColor::Darken") => <>[](rgb = RgbColor(0, 0, 0)))
    /\ [](FirstOf("RgbColor::Lighten") => <>[](rgb = RgbColor(255, 255, 255)))
    /\ [](FirstOf("RgbwColor::Darken") => <>[](rgbw = RgbwColor(0, 0, 0, 0)))
    /\ \A w \in WhiteVals :
           [](FirstOf("RgbwColor::Lighten")
                  /\ ~IsColorLess(call.pre) /\ call.pre.W = w
              => <>[](rgbw = RgbwColor(255, 255, 255, w)))
    /\ [](FirstOf("RgbwColor::Lighten") /\ IsColorLess(call.pre)
          => <>[](rgbw = RgbwColor(0, 0, 0, 255)))
    /\ [][AtEnd]_vars

\* Lighten(1) has been repeated on RgbwColor(1, 128, 254, 127) until the call
\* before the last one reached (255, 255, 255, 127) and the last one left it
\* as it was
C21_Witness ==
    /\ call = Call("RgbwColor::Lighten", 1, RgbwColor(255, 255, 255, 127))
    /\ prev = Call("RgbwColor::Lighten", 1, RgbwColor(254, 255, 255, 127))
    /\ rgbw = RgbwColor(255, 255, 255, 127)
====
